---- MODULE Spec2Model ----
(***************************************************************************)
(* Dynamic name resolution of builddsl._runtime: ObjectContext,            *)
(* MapContext, ChainContext, Closure and UnboundClosure.                   *)
(*                                                                         *)
(* Python values are records [tag, n, self].  A raw target value (the      *)
(* object or mapping a context wraps) is a record [type, addr, inst, cls]: *)
(* for a dict, inst is its items; for an object, inst is the instance      *)
(* __dict__ and cls the members found on its class.                        *)
(***************************************************************************)
EXTENDS Integers, Sequences, FiniteSets, TLC

VARIABLES closures, contexts, builtins, last, pre

vars == <<closures, contexts, builtins, last, pre>>

\* Bounds of the model.
MaxClosures == 2
MaxContexts == 2

Keys == {"a", "run", "len"}

----------------------------------------------------------------------------
\* Values

undefined == [tag |-> "undefined", n |-> 0, self |-> 0]

Data(n) == [tag |-> "data", n |-> n, self |-> 0]

\* A function found on a class; getattr on an instance binds it.
Function == [tag |-> "function", n |-> 0, self |-> 0]

\* types.MethodType: a bound method whose __self__ is the object at addr.
BoundMethod(addr) == [tag |-> "method", n |-> 0, self |-> addr]

BuiltinValue == [tag |-> "builtin", n |-> 0, self |-> 0]

\* Values the generated code passes to set.
SetValues == {Data(2)}

Empty == [k \in Keys |-> undefined]

One(k, v) == [Empty EXCEPT ![k] = v]

\* The attributes of the builtins module.
BuiltinTable == One("len", BuiltinValue)

\* Raw target values.
NoneValue == [type |-> "none", addr |-> 0, inst |-> Empty, cls |-> Empty]

Dict(addr, items) == [type |-> "dict", addr |-> addr, inst |-> items, cls |-> Empty]

Object(addr, inst, cls) == [type |-> "object", addr |-> addr, inst |-> inst, cls |-> cls]

\* The mappings and objects the model passes in, allocated at address addr:
\* a dict {"a": 1}; an instance with attribute run = 1 of a class that
\* defines the data attribute len = 0; and an instance with attribute a = 1
\* of a class that defines a method run.
DictValues(addr) == { Dict(addr, One("a", Data(1))) }

ObjectValues(addr) == { Object(addr, One("run", Data(1)), One("len", Data(0))) }

MethodObjectValues(addr) ==
    { Object(addr, One("a", Data(1)), One("run", Function)) }

TargetValues(addr) == DictValues(addr) \cup ObjectValues(addr)

\* f_locals of the frames in which closures are defined.
LocalsValues == { Empty, [One("a", Data(7)) EXCEPT !["len"] = Data(7)] }

----------------------------------------------------------------------------
\* Outcomes of an operation: err is "none" or the exception class raised.

Ok(v) == [err |-> "none", val |-> v]

Raise(e) == [err |-> e, val |-> undefined]

----------------------------------------------------------------------------
\* Attribute access of the host language, as ObjectContext uses it.

\* getattr(target, key, undefined)
GetAttr(target, key) ==
    IF target.type # "object" THEN undefined
    ELSE IF target.inst[key] # undefined THEN target.inst[key]
    ELSE IF target.cls[key] = Function THEN BoundMethod(target.addr)
    ELSE target.cls[key]

\* Mutant: the attribute is not stored.
SetAttrDropped(target, key, value) == target

\* setattr(target, key, value)
SetAttr(target, key, value) == [target EXCEPT !.inst[key] = value]

\* delattr(target, key): AttributeError unless the instance holds the member.
DelAttrFails(target, key) == target.inst[key] = undefined

DelAttr(target, key) == [target EXCEPT !.inst[key] = undefined]

\* Identity of a value: getattr allocates every bound method anew, at an
\* address no target object has.
AddrOf(v) == IF v.tag = "method" THEN 0 - 1 - v.self ELSE 0

\* isinstance(current, types.MethodType) and current.__self__ is current
IsOwnMethod(current) ==
    current.tag = "method" /\ current.self = AddrOf(current)

----------------------------------------------------------------------------
\* Contexts: [kind, target].  A write yields [err, target], target being the
\* wrapped value after the call.

NoContext == [kind |-> "None", target |-> NoneValue]

ObjectContext(target) == [kind |-> "ObjectContext", target |-> target]

MapContext(target) == [kind |-> "MapContext", target |-> target]

ObjectContextGet(target, key) ==
    LET value == GetAttr(target, key)
    IN  IF value # undefined THEN Ok(value) ELSE Raise("NameError")

ObjectContextSet(target, key, value) ==
    LET current == GetAttr(target, key)
    IN  IF current = undefined THEN [err |-> "NameError", target |-> target]
        ELSE IF IsOwnMethod(current) THEN [err |-> "RuntimeError", target |-> target]
        ELSE [err |-> "none", target |-> SetAttr(target, key, value)]

ObjectContextDel(target, key) ==
    LET current == GetAttr(target, key)
    IN  IF current = undefined THEN [err |-> "NameError", target |-> target]
        ELSE IF IsOwnMethod(current) THEN [err |-> "RuntimeError", target |-> target]
        ELSE IF DelAttrFails(target, key) THEN [err |-> "AttributeError", target |-> target]
        ELSE [err |-> "none", target |-> DelAttr(target, key)]

MapContextGet(target, key) ==
    IF target.inst[key] # undefined THEN Ok(target.inst[key]) ELSE Raise("NameError")

\* Mutant: a plain item assignment, which inserts a missing key.
MapContextSetInserts(target, key, value) ==
    [err |-> "none", target |-> [target EXCEPT !.inst[key] = value]]

MapContextSet(target, key, value) ==
    IF target.inst[key] # undefined
    THEN [err |-> "none", target |-> [target EXCEPT !.inst[key] = value]]
    ELSE [err |-> "NameError", target |-> target]

MapContextDel(target, key) ==
    IF target.inst[key] # undefined
    THEN [err |-> "none", target |-> [target EXCEPT !.inst[key] = undefined]]
    ELSE [err |-> "NameError", target |-> target]

\* ctx[key], ctx[key] = value, del ctx[key] dispatched on the context's class.
CtxGet(ctx, key) ==
    IF ctx.kind = "MapContext" THEN MapContextGet(ctx.target, key)
    ELSE ObjectContextGet(ctx.target, key)

CtxSet(ctx, key, value) ==
    IF ctx.kind = "MapContext" THEN MapContextSet(ctx.target, key, value)
    ELSE ObjectContextSet(ctx.target, key, value)

CtxDel(ctx, key) ==
    IF ctx.kind = "MapContext" THEN MapContextDel(ctx.target, key)
    ELSE ObjectContextDel(ctx.target, key)

----------------------------------------------------------------------------
\* Closures.  closures is the sequence of Closure objects created so far; a
\* closure is [parent, frame, target_context, context_factory], parent being
\* an index into closures (0: no parent) and frame [present, f_locals].

NoFrame == [present |-> FALSE, f_locals |-> Empty]

Frame(locals) == [present |-> TRUE, f_locals |-> locals]

\* context_factory(target)
ApplyFactory(factory, target) ==
    IF factory = "MapContext" THEN MapContext(target) ELSE ObjectContext(target)

\* Closure.__init__
NewClosure(parent, frame, target, context_factory, target_context) ==
    [ parent |-> parent,
      frame |-> frame,
      target_context |->
          IF target_context = NoContext
          THEN (IF target # NoneValue THEN ApplyFactory(context_factory, target) ELSE NoContext)
          ELSE target_context,
      context_factory |-> context_factory ]

\* Closure.from_map
FromMap(m) == NewClosure(0, NoFrame, m, "ObjectContext", MapContext(m))

\* Mutant: a bare except, which swallows every exception.
CaughtAll(err) == err # "none"

\* except NameError: pass
Caught(err) == err = "NameError"

\* Mutant: the local scope is never looked at.
InLocalsNever(self, key) == FALSE

\* frame and key in frame.f_locals
InLocals(self, key) == self.frame.present /\ self.frame.f_locals[key] # undefined

\* hasattr(builtins, key)
HasBuiltin(tbl, key) == tbl[key] # undefined

Step(what, c) == [what |-> what, c |-> c]

\* Mutant: the target context is asked before the local scope.
RECURSIVE ClosureGetTargetFirst(_, _, _, _)
ClosureGetTargetFirst(clos, tbl, c, key) ==
    LET self == clos[c]
        hasT == self.target_context # NoContext
        rt == CtxGet(self.target_context, key)
        hasP == self.parent # 0
        rp == ClosureGetTargetFirst(clos, tbl, self.parent, key)
    IN  IF hasT /\ rt.err = "none"
        THEN [err |-> "none", val |-> rt.val, trace |-> <<Step("target", c)>>]
        ELSE IF InLocals(self, key)
        THEN [err |-> "none", val |-> self.frame.f_locals[key], trace |-> <<Step("local", c)>>]
        ELSE IF hasP /\ rp.err = "none"
        THEN [err |-> "none", val |-> rp.val, trace |-> <<Step("target", c)>> \o rp.trace]
        ELSE IF HasBuiltin(tbl, key)
        THEN [err |-> "none", val |-> tbl[key], trace |-> <<Step("builtins", c)>>]
        ELSE [err |-> "NameError", val |-> undefined, trace |-> <<Step("builtins", c)>>]

\* Closure.__getitem__: [err, val, trace], trace listing the candidates
\* consulted in order.
RECURSIVE ClosureGet(_, _, _, _)
ClosureGet(clos, tbl, c, key) ==
    LET self == clos[c]
        t0 == IF self.frame.present THEN <<Step("local", c)>> ELSE <<>>
    IN  IF InLocals(self, key)
        THEN [err |-> "none", val |-> self.frame.f_locals[key], trace |-> t0]
        ELSE
        LET hasT == self.target_context # NoContext
            rt == CtxGet(self.target_context, key)
            t1 == IF hasT THEN Append(t0, Step("target", c)) ELSE t0
        IN  IF hasT /\ ~Caught(rt.err)
            THEN [err |-> rt.err, val |-> rt.val, trace |-> t1]
            ELSE
            LET hasP == self.parent # 0
                rp == ClosureGet(clos, tbl, self.parent, key)
                t2 == IF hasP THEN t1 \o rp.trace ELSE t1
            IN  IF hasP /\ ~Caught(rp.err)
                THEN [err |-> rp.err, val |-> rp.val, trace |-> t2]
                ELSE IF HasBuiltin(tbl, key)
                THEN [err |-> "none", val |-> tbl[key],
                      trace |-> Append(t2, Step("builtins", c))]
                ELSE [err |-> "NameError", val |-> undefined,
                      trace |-> Append(t2, Step("builtins", c))]

\* Mutant: the parent is asked before the closure's own target context.
RECURSIVE ClosureSetParentFirst(_, _, _, _)
ClosureSetParentFirst(clos, c, key, value) ==
    LET self == clos[c]
        hasT == self.target_context # NoContext
        rt == CtxSet(self.target_context, key, value)
        hasP == self.parent # 0
        rp == ClosureSetParentFirst(clos, self.parent, key, value)
    IN  IF InLocals(self, key)
        THEN [err |-> "RuntimeError", closures |-> clos, trace |-> <<Step("local", c)>>]
        ELSE IF hasP /\ ~Caught(rp.err)
        THEN [err |-> rp.err, closures |-> rp.closures, trace |-> rp.trace]
        ELSE IF hasT /\ ~Caught(rt.err)
        THEN [err |-> rt.err,
              closures |-> [clos EXCEPT ![c].target_context.target = rt.target],
              trace |-> <<Step("target", c)>>]
        ELSE [err |-> "NameError", closures |-> clos, trace |-> <<>>]

\* Closure.__setitem__: [err, closures, trace].
RECURSIVE ClosureSet(_, _, _, _)
ClosureSet(clos, c, key, value) ==
    LET self == clos[c]
        t0 == IF self.frame.present THEN <<Step("local", c)>> ELSE <<>>
    IN  IF InLocals(self, key)
        THEN [err |-> "RuntimeError", closures |-> clos, trace |-> t0]
        ELSE
        LET hasT == self.target_context # NoContext
            rt == CtxSet(self.target_context, key, value)
            t1 == IF hasT THEN Append(t0, Step("target", c)) ELSE t0
        IN  IF hasT /\ ~Caught(rt.err)
            THEN [err |-> rt.err,
                  closures |-> [clos EXCEPT ![c].target_context.target = rt.target],
                  trace |-> t1]
            ELSE
            LET hasP == self.parent # 0
                rp == ClosureSet(clos, self.parent, key, value)
                t2 == IF hasP THEN t1 \o rp.trace ELSE t1
            IN  IF hasP /\ ~Caught(rp.err)
                THEN [err |-> rp.err, closures |-> rp.closures, trace |-> t2]
                ELSE [err |-> "NameError", closures |-> clos, trace |-> t2]

\* Mutant: like get, delete falls back to the built-in symbols.
RECURSIVE ClosureDelBuiltins(_, _, _)
ClosureDelBuiltins(clos, c, key) ==
    LET self == clos[c]
        hasT == self.target_context # NoContext
        rt == CtxDel(self.target_context, key)
        hasP == self.parent # 0
        rp == ClosureDelBuiltins(clos, self.parent, key)
    IN  IF InLocals(self, key)
        THEN [err |-> "RuntimeError", closures |-> clos, trace |-> <<Step("local", c)>>]
        ELSE IF hasT /\ ~Caught(rt.err)
        THEN [err |-> rt.err,
              closures |-> [clos EXCEPT ![c].target_context.target = rt.target],
              trace |-> <<Step("target", c)>>]
        ELSE IF hasP /\ ~Caught(rp.err)
        THEN [err |-> rp.err, closures |-> rp.closures, trace |-> rp.trace]
        ELSE IF HasBuiltin(BuiltinTable, key)
        THEN [err |-> "none", closures |-> clos, trace |-> <<Step("builtins", c)>>]
        ELSE [err |-> "NameError", closures |-> clos, trace |-> <<>>]

\* Closure.__delitem__: [err, closures, trace].
RECURSIVE ClosureDel(_, _, _)
ClosureDel(clos, c, key) ==
    LET self == clos[c]
        t0 == IF self.frame.present THEN <<Step("local", c)>> ELSE <<>>
    IN  IF InLocals(self, key)
        THEN [err |-> "RuntimeError", closures |-> clos, trace |-> t0]
        ELSE
        LET hasT == self.target_context # NoContext
            rt == CtxDel(self.target_context, key)
            t1 == IF hasT THEN Append(t0, Step("target", c)) ELSE t0
        IN  IF hasT /\ ~Caught(rt.err)
            THEN [err |-> rt.err,
                  closures |-> [clos EXCEPT ![c].target_context.target = rt.target],
                  trace |-> t1]
            ELSE
            LET hasP == self.parent # 0
                rp == ClosureDel(clos, self.parent, key)
                t2 == IF hasP THEN t1 \o rp.trace ELSE t1
            IN  IF hasP /\ ~Caught(rp.err)
                THEN [err |-> rp.err, closures |-> rp.closures, trace |-> t2]
                ELSE [err |-> "NameError", closures |-> clos, trace |-> t2]

----------------------------------------------------------------------------
\* References to Context objects: a Closure of closures or a stand-alone
\* ObjectContext / MapContext of contexts.  A heap is [closures, contexts].

ClosureRef(i) == [kind |-> "Closure", i |-> i]

ContextRef(i) == [kind |-> "Context", i |-> i]

RefGet(heap, tbl, ref, key) ==
    IF ref.kind = "Closure"
    THEN LET r == ClosureGet(heap.closures, tbl, ref.i, key)
         IN  [err |-> r.err, val |-> r.val]
    ELSE CtxGet(heap.contexts[ref.i], key)

RefSet(heap, ref, key, value) ==
    IF ref.kind = "Closure"
    THEN LET r == ClosureSet(heap.closures, ref.i, key, value)
         IN  [err |-> r.err, heap |-> [heap EXCEPT !.closures = r.closures]]
    ELSE LET r == CtxSet(heap.contexts[ref.i], key, value)
         IN  [err |-> r.err, heap |-> [heap EXCEPT !.contexts[ref.i].target = r.target]]

RefDel(heap, ref, key) ==
    IF ref.kind = "Closure"
    THEN LET r == ClosureDel(heap.closures, ref.i, key)
         IN  [err |-> r.err, heap |-> [heap EXCEPT !.closures = r.closures]]
    ELSE LET r == CtxDel(heap.contexts[ref.i], key)
         IN  [err |-> r.err, heap |-> [heap EXCEPT !.contexts[ref.i].target = r.target]]

----------------------------------------------------------------------------
\* ChainContext: chain is its tuple _contexts of references.  tried is the
\* number of sub-contexts the loop reached.

\* Context.chain_with / ChainContext.chain_with
ChainWith(chain, other) == Append(chain, other)

RECURSIVE ChainGetFrom(_, _, _, _, _)
ChainGetFrom(heap, tbl, chain, i, key) ==
    IF i > Len(chain) THEN [err |-> "NameError", val |-> undefined, tried |-> Len(chain)]
    ELSE LET r == RefGet(heap, tbl, chain[i], key)
         IN  IF Caught(r.err) THEN ChainGetFrom(heap, tbl, chain, i + 1, key)
             ELSE [err |-> r.err, val |-> r.val, tried |-> i]

\* ChainContext.__getitem__
ChainContextGet(heap, tbl, chain, key) == ChainGetFrom(heap, tbl, chain, 1, key)

RECURSIVE ChainSetFrom(_, _, _, _, _)
ChainSetFrom(heap, chain, i, key, value) ==
    IF i > Len(chain) THEN [err |-> "NameError", heap |-> heap, tried |-> Len(chain)]
    ELSE LET r == RefSet(heap, chain[i], key, value)
         IN  IF Caught(r.err) THEN ChainSetFrom(heap, chain, i + 1, key, value)
             ELSE [err |-> r.err, heap |-> r.heap, tried |-> i]

\* Mutant: the loop does not return after the first success.
RECURSIVE ChainSetEvery(_, _, _, _, _, _)
ChainSetEvery(heap, chain, i, key, value, done) ==
    IF i > Len(chain)
    THEN [err |-> IF done THEN "none" ELSE "NameError", heap |-> heap, tried |-> Len(chain)]
    ELSE LET r == RefSet(heap, chain[i], key, value)
         IN  IF Caught(r.err) THEN ChainSetEvery(heap, chain, i + 1, key, value, done)
             ELSE IF r.err = "none" THEN ChainSetEvery(r.heap, chain, i + 1, key, value, TRUE)
             ELSE [err |-> r.err, heap |-> r.heap, tried |-> i]

ChainContextSetEvery(heap, chain, key, value) == ChainSetEvery(heap, chain, 1, key, value, FALSE)

\* ChainContext.__setitem__
ChainContextSet(heap, chain, key, value) == ChainSetFrom(heap, chain, 1, key, value)

RECURSIVE ChainDelFrom(_, _, _, _)
ChainDelFrom(heap, chain, i, key) ==
    IF i > Len(chain) THEN [err |-> "NameError", heap |-> heap, tried |-> Len(chain)]
    ELSE LET r == RefDel(heap, chain[i], key)
         IN  IF Caught(r.err) THEN ChainDelFrom(heap, chain, i + 1, key)
             ELSE [err |-> r.err, heap |-> r.heap, tried |-> i]

\* ChainContext.__delitem__
ChainContextDel(heap, chain, key) == ChainDelFrom(heap, chain, 1, key)

----------------------------------------------------------------------------
\* UnboundClosure: [parent, frame, func].

\* The callables the generated code wraps: what func(*cargs) returns.
Funcs == {"count", "zero"}

CallFunc(func, cargs) == IF func = "count" THEN Data(Len(cargs)) ELSE Data(0)

\* Closure.subclosure
Subclosure(c, func, locals) == [parent |-> c, frame |-> Frame(locals), func |-> func]

\* Mutant: the new closure gets the default factory, not its parent's.
UnboundClosureCallDefaultFactory(clos, u, args) ==
    LET closure == NewClosure(u.parent, u.frame,
                              IF Len(args) > 0 THEN args[1] ELSE NoneValue,
                              "ObjectContext", NoContext)
        after == Append(clos, closure)
        cargs == <<Len(after)>> \o args
    IN  [ closures |-> after,
          calls |-> << [func |-> u.func, cargs |-> cargs] >>,
          ret |-> CallFunc(u.func, cargs) ]

\* UnboundClosure.__call__: the closures after the call, the invocations of
\* func it made and the value it returned.
UnboundClosureCall(clos, u, args) ==
    LET closure == NewClosure(u.parent, u.frame,
                              IF Len(args) > 0 THEN args[1] ELSE NoneValue,
                              clos[u.parent].context_factory, NoContext)
        after == Append(clos, closure)
        cargs == <<Len(after)>> \o args
    IN  [ closures |-> after,
          calls |-> << [func |-> u.func, cargs |-> cargs] >>,
          ret |-> CallFunc(u.func, cargs) ]

----------------------------------------------------------------------------
\* State

Heap == [closures |-> closures, contexts |-> contexts]

NoUnbound == [parent |-> 0, frame |-> NoFrame, func |-> ""]

\* The last operation: what was called on which contexts with which inputs,
\* and its outcome.
NoOp == [ op |-> "none", on |-> <<>>, key |-> "", value |-> undefined,
          unbound |-> NoUnbound, args |-> <<>>,
          err |-> "none", val |-> undefined, trace |-> <<>>, tried |-> 0,
          calls |-> <<>> ]

\* The root closures a driver constructs.
RootClosures ==
    { FromMap(m) : m \in DictValues(1) }
    \cup { NewClosure(0, NoFrame, t, "ObjectContext", NoContext) : t \in ObjectValues(1) }
    \cup { NewClosure(0, Frame(locals), m, "MapContext", NoContext) :
              locals \in LocalsValues \ {Empty}, m \in DictValues(1) }

Init ==
    /\ closures \in { <<r>> : r \in RootClosures }
    /\ contexts = <<>>
    /\ builtins = BuiltinTable
    /\ last = NoOp
    /\ pre = Heap

\* Positional arguments of a bind whose first argument lives at addr.
ArgLists(addr) ==
    { <<>>, <<NoneValue>> }
    \cup { <<t>> : t \in TargetValues(addr) }
    \cup { <<t, NoneValue>> : t \in DictValues(addr) }

\* closures[p].subclosure(func)(*args) in a frame whose f_locals is locals.
Bind(p, locals, func, args) ==
    /\ Len(closures) < MaxClosures
    /\ (closures[p].context_factory = "MapContext" /\ Len(args) > 0)
          => args[1].type \in {"dict", "none"}
    /\ LET u == Subclosure(p, func, locals)
           r == UnboundClosureCall(closures, u, args)
       IN  /\ closures' = r.closures
           /\ last' = [NoOp EXCEPT !.op = "bind", !.on = <<ClosureRef(p)>>,
                                   !.unbound = u, !.args = args,
                                   !.val = r.ret, !.calls = r.calls]
    /\ pre' = Heap
    /\ UNCHANGED <<contexts, builtins>>

\* closures[c][key]
ClosureGetOp(c, key) ==
    /\ LET r == ClosureGet(closures, builtins, c, key)
       IN  last' = [NoOp EXCEPT !.op = "get", !.on = <<ClosureRef(c)>>, !.key = key,
                                !.err = r.err, !.val = r.val, !.trace = r.trace]
    /\ pre' = Heap
    /\ UNCHANGED <<closures, contexts, builtins>>

\* closures[c][key] = value
ClosureSetOp(c, key, value) ==
    /\ LET r == ClosureSet(closures, c, key, value)
       IN  /\ closures' = r.closures
           /\ last' = [NoOp EXCEPT !.op = "set", !.on = <<ClosureRef(c)>>, !.key = key,
                                   !.value = value, !.err = r.err, !.trace = r.trace]
    /\ pre' = Heap
    /\ UNCHANGED <<contexts, builtins>>

\* del closures[c][key]
ClosureDelOp(c, key) ==
    /\ LET r == ClosureDel(closures, c, key)
       IN  /\ closures' = r.closures
           /\ last' = [NoOp EXCEPT !.op = "del", !.on = <<ClosureRef(c)>>, !.key = key,
                                   !.err = r.err, !.trace = r.trace]
    /\ pre' = Heap
    /\ UNCHANGED <<contexts, builtins>>

\* ChainContext(*chain)[key]
ChainGetOp(chain, key) ==
    /\ LET r == ChainContextGet(Heap, builtins, chain, key)
       IN  last' = [NoOp EXCEPT !.op = "chain_get", !.on = chain, !.key = key,
                                !.err = r.err, !.val = r.val, !.tried = r.tried]
    /\ pre' = Heap
    /\ UNCHANGED <<closures, contexts, builtins>>

\* ChainContext(*chain)[key] = value
ChainSetOp(chain, key, value) ==
    /\ LET r == ChainContextSet(Heap, chain, key, value)
       IN  /\ closures' = r.heap.closures
           /\ contexts' = r.heap.contexts
           /\ last' = [NoOp EXCEPT !.op = "chain_set", !.on = chain, !.key = key,
                                   !.value = value, !.err = r.err, !.tried = r.tried]
    /\ pre' = Heap
    /\ UNCHANGED builtins

\* del ChainContext(*chain)[key]
ChainDelOp(chain, key) ==
    /\ LET r == ChainContextDel(Heap, chain, key)
       IN  /\ closures' = r.heap.closures
           /\ contexts' = r.heap.contexts
           /\ last' = [NoOp EXCEPT !.op = "chain_del", !.on = chain, !.key = key,
                                   !.err = r.err, !.tried = r.tried]
    /\ pre' = Heap
    /\ UNCHANGED builtins

\* The chains ChainContext(closures[i], closures[1]) of a closure and the root.
ClosureChains == { <<ClosureRef(i), ClosureRef(1)>> : i \in 2..Len(closures) }

Next ==
    \/ \E p \in 1..Len(closures), locals \in LocalsValues, func \in Funcs,
          args \in ArgLists(Len(closures) + 1) : Bind(p, locals, func, args)
    \/ \E c \in 1..Len(closures), key \in Keys : ClosureGetOp(c, key)
    \/ \E c \in 1..Len(closures), key \in Keys, value \in SetValues : ClosureSetOp(c, key, value)
    \/ \E c \in 1..Len(closures), key \in Keys : ClosureDelOp(c, key)
    \/ \E chain \in ClosureChains, key \in Keys, value \in SetValues : ChainSetOp(chain, key, value)
    \/ \E chain \in ClosureChains, key \in Keys : ChainDelOp(chain, key)

Spec == Init /\ [][Next]_vars

----------------------------------------------------------------------------
\* Stand-alone contexts and the chains over them.

ContextAddr(i) == MaxClosures + i

\* ObjectContext(obj) and MapContext(m, description)
ContextValues(addr) ==
    { MapContext(m) : m \in DictValues(addr) }
    \cup { ObjectContext(t) : t \in MethodObjectValues(addr) }

InitChain ==
    /\ closures = <<>>
    /\ contexts \in { <<x>> : x \in ContextValues(ContextAddr(1)) }
    /\ builtins = BuiltinTable
    /\ last = NoOp
    /\ pre = Heap

NewContext(ctx) ==
    /\ Len(contexts) + Len(closures) < MaxContexts
    /\ contexts' = Append(contexts, ctx)
    /\ last' = [NoOp EXCEPT !.op = "new"]
    /\ pre' = Heap
    /\ UNCHANGED <<closures, builtins>>

\* Closure.from_map(m)
FromMapOp(m) ==
    /\ Len(contexts) + Len(closures) < MaxContexts
    /\ closures' = Append(closures, FromMap(m))
    /\ last' = [NoOp EXCEPT !.op = "from_map"]
    /\ pre' = Heap
    /\ UNCHANGED <<contexts, builtins>>

\* contexts[i][key]
CtxGetOp(i, key) ==
    /\ LET r == CtxGet(contexts[i], key)
       IN  last' = [NoOp EXCEPT !.op = "ctx_get", !.on = <<ContextRef(i)>>, !.key = key,
                                !.err = r.err, !.val = r.val]
    /\ pre' = Heap
    /\ UNCHANGED <<closures, contexts, builtins>>

\* contexts[i][key] = value
CtxSetOp(i, key, value) ==
    /\ LET r == CtxSet(contexts[i], key, value)
       IN  /\ contexts' = [contexts EXCEPT ![i].target = r.target]
           /\ last' = [NoOp EXCEPT !.op = "ctx_set", !.on = <<ContextRef(i)>>, !.key = key,
                                   !.value = value, !.err = r.err]
    /\ pre' = Heap
    /\ UNCHANGED <<closures, builtins>>

\* del contexts[i][key]
CtxDelOp(i, key) ==
    /\ LET r == CtxDel(contexts[i], key)
       IN  /\ contexts' = [contexts EXCEPT ![i].target = r.target]
           /\ last' = [NoOp EXCEPT !.op = "ctx_del", !.on = <<ContextRef(i)>>, !.key = key,
                                   !.err = r.err]
    /\ pre' = Heap
    /\ UNCHANGED <<closures, builtins>>

\* contexts[1].chain_with(contexts[2]).chain_with(...) up to contexts[m]
RECURSIVE ChainOfContexts(_)
ChainOfContexts(m) ==
    IF m = 1 THEN <<ContextRef(1)>> ELSE ChainWith(ChainOfContexts(m - 1), ContextRef(m))

ContextChains == { ChainOfContexts(m) : m \in 2..Len(contexts) }

NextChain ==
    \/ \E ctx \in ContextValues(ContextAddr(Len(contexts) + 1)) : NewContext(ctx)
    \/ \E m \in DictValues(Len(closures) + 1) : FromMapOp(m)
    \/ \E i \in 1..Len(contexts), key \in Keys : CtxGetOp(i, key)
    \/ \E i \in 1..Len(contexts), key \in Keys, value \in SetValues : CtxSetOp(i, key, value)
    \/ \E i \in 1..Len(contexts), key \in Keys : CtxDelOp(i, key)
    \/ \E c \in 1..Len(closures), key \in Keys : ClosureGetOp(c, key)
    \/ \E c \in 1..Len(closures), key \in Keys, value \in SetValues : ClosureSetOp(c, key, value)
    \/ \E c \in 1..Len(closures), key \in Keys : ClosureDelOp(c, key)
    \/ \E chain \in ContextChains, key \in Keys : ChainGetOp(chain, key)
    \/ \E chain \in ContextChains, key \in Keys, value \in SetValues : ChainSetOp(chain, key, value)
    \/ \E chain \in ContextChains, key \in Keys : ChainDelOp(chain, key)

SpecChain == InitChain /\ [][NextChain]_vars

----------------------------------------------------------------------------
\* Properties of closures, checked under Spec.

\* The closure the last operation was called on.
OnClosure == last.on[1].i

IsClosureOp(ops) == last.op \in ops /\ last.on[1].kind = "Closure"

\* c, its parent, its grandparent, ... up to the root.
RECURSIVE Ancestors(_, _)
Ancestors(clos, c) == IF c = 0 THEN <<>> ELSE <<c>> \o Ancestors(clos, clos[c].parent)

HasLocal(cl, k) == cl.frame.present /\ cl.frame.f_locals[k] # undefined

TargetKnows(cl, k) ==
    cl.target_context.kind # "None" /\ CtxGet(cl.target_context, k).err = "none"

Least(S) == CHOOSE i \in S : \A j \in S : i <= j

\* Resolution of k over the levels from, from + 1, ... of the ancestor list
\* ch: at each level the local scope, then the target; the built-ins last.
ResolveFrom(clos, tbl, ch, from, k) ==
    LET hits == { i \in from..Len(ch) : HasLocal(clos[ch[i]], k) \/ TargetKnows(clos[ch[i]], k) }
    IN  IF hits = {}
        THEN (IF tbl[k] # undefined THEN Ok(tbl[k]) ELSE Raise("NameError"))
        ELSE LET cl == clos[ch[Least(hits)]]
             IN  IF HasLocal(cl, k) THEN Ok(cl.frame.f_locals[k])
                 ELSE Ok(CtxGet(cl.target_context, k).val)

Outcome(r) == [err |-> r.err, val |-> r.val]

\* C1: get resolves a key from the local scope, then the closure's own
\* target, then the parent (by the same rule), then the built-in symbols, and
\* fails NameError only when none of them knows the key; a local value wins
\* over everything and a built-in is returned only when nothing else knows
\* the key.
C1_ResolutionOrder ==
    IsClosureOp({"get"}) =>
        /\ Outcome(last) =
             ResolveFrom(closures, builtins, Ancestors(closures, OnClosure), 1, last.key)
        /\ HasLocal(closures[OnClosure], last.key) =>
             Outcome(last) = Ok(closures[OnClosure].frame.f_locals[last.key])
        /\ last.val = BuiltinValue =>
             \A i \in DOMAIN Ancestors(closures, OnClosure) :
                LET cl == closures[Ancestors(closures, OnClosure)[i]]
                IN  ~HasLocal(cl, last.key) /\ ~TargetKnows(cl, last.key)

\* A get of a key that the local scope, the target and the built-ins all know.
C1_Witness ==
    /\ IsClosureOp({"get"})
    /\ HasLocal(closures[OnClosure], last.key)
    /\ TargetKnows(closures[OnClosure], last.key)
    /\ closures[OnClosure].parent # 0
    /\ last.val = Data(7)

\* C2: set and delete of a key of the closure's local scope fail with
\* RuntimeError and change no target on the chain, and no operation ever
\* changes a local scope.
C2_LocalMutationGuard ==
    /\ (IsClosureOp({"set", "del"}) /\ HasLocal(pre.closures[OnClosure], last.key)) =>
          (last.err = "RuntimeError" /\ closures = pre.closures)
    /\ \A i \in 1..Len(pre.closures) : closures[i].frame = pre.closures[i].frame

\* A refused write of a local key that the closure's target and its parent
\* both know.
C2_Witness ==
    /\ IsClosureOp({"set", "del"})
    /\ HasLocal(closures[OnClosure], last.key)
    /\ TargetKnows(closures[OnClosure], last.key)
    /\ closures[OnClosure].parent # 0
    /\ TargetKnows(closures[closures[OnClosure].parent], last.key)
    /\ last.err = "RuntimeError"

\* The target a context holds after the last write is applied to it alone.
Written(ctx) ==
    IF last.op \in {"set", "chain_set", "ctx_set"}
    THEN CtxSet(ctx, last.key, last.value)
    ELSE CtxDel(ctx, last.key)

\* C6: a successful set or delete writes to the target of the nearest
\* closure (self, parent, grandparent, ...) whose target knows the key, and
\* leaves every other closure as it was.
C6_NearestTargetWritten ==
    (IsClosureOp({"set", "del"}) /\ last.err = "none") =>
        LET ch == Ancestors(pre.closures, OnClosure)
            knows == { i \in 1..Len(ch) : TargetKnows(pre.closures[ch[i]], last.key) }
        IN  /\ knows # {}
            /\ \A i \in 1..Least(knows) : ~HasLocal(pre.closures[ch[i]], last.key)
            /\ closures = [pre.closures EXCEPT ![ch[Least(knows)]].target_context.target =
                              Written(pre.closures[ch[Least(knows)]].target_context).target]

\* child.set("a", 2) where only the root's map knows "a".
C6_Witness ==
    /\ IsClosureOp({"set"})
    /\ last.err = "none"
    /\ OnClosure = 2
    /\ last.key = "a"
    /\ closures[2].target_context.kind = "ObjectContext"
    /\ closures[2] = pre.closures[2]
    /\ pre.closures[1].target_context.target.inst["a"] = Data(1)
    /\ closures[1].target_context.target.inst["a"] = Data(2)

\* What a candidate of the resolution walk answers to the last write when it
\* is asked alone: a closure's local-scope guard, then its target.
GuardRefuses(cl) == HasLocal(cl, last.key)

TargetAnswer(cl) ==
    IF cl.target_context.kind = "None" THEN "NameError"
    ELSE Written(cl.target_context).err

\* The levels of ch at which the walk of the last write ends: a guard
\* refuses, or the target answers anything but NameError.
Deciding(clos, ch) ==
    { i \in 1..Len(ch) : GuardRefuses(clos[ch[i]]) \/ TargetAnswer(clos[ch[i]]) # "NameError" }

\* The failure, other than NameError, that closure c raises for the last write.
FailureOf(clos, c) ==
    LET ch == Ancestors(clos, c)
        d == Deciding(clos, ch)
    IN  IF d = {} THEN "NameError"
        ELSE IF GuardRefuses(clos[ch[Least(d)]]) THEN "RuntimeError"
        ELSE TargetAnswer(clos[ch[Least(d)]])

\* C7: only NameError makes a closure or a chain go on to its next
\* candidate.  When the target or the parent of a closure, or a sub-context
\* of a chain, fails a write with any other error, that error is the outcome,
\* the walk ends at the candidate that raised it and nothing is modified.
C7_OnlyNameErrorFallsThrough ==
    /\ (IsClosureOp({"set", "del"})
          /\ FailureOf(pre.closures, OnClosure) \notin {"none", "NameError"}) =>
          LET ch == Ancestors(pre.closures, OnClosure)
              j == Least(Deciding(pre.closures, ch))
          IN  /\ last.err = FailureOf(pre.closures, OnClosure)
              /\ closures = pre.closures
              /\ last.trace[Len(last.trace)] =
                    Step(IF GuardRefuses(pre.closures[ch[j]]) THEN "local" ELSE "target", ch[j])
    /\ (last.op \in {"chain_set", "chain_del"}) =>
          LET failing == { i \in 1..Len(last.on) :
                              FailureOf(pre.closures, last.on[i].i) # "NameError" }
          IN  (failing # {}
                 /\ FailureOf(pre.closures, last.on[Least(failing)].i) # "none") =>
                 /\ last.err = FailureOf(pre.closures, last.on[Least(failing)].i)
                 /\ last.tried = Least(failing)
                 /\ closures = pre.closures

\* child.set(k, v): the child's target does not know k, the parent's local
\* scope holds k and the parent's target knows k.
C7_Witness ==
    /\ IsClosureOp({"set"})
    /\ closures[OnClosure].parent # 0
    /\ ~HasLocal(closures[OnClosure], last.key)
    /\ ~TargetKnows(closures[OnClosure], last.key)
    /\ HasLocal(closures[closures[OnClosure].parent], last.key)
    /\ TargetKnows(closures[closures[OnClosure].parent], last.key)
    /\ last.err = "RuntimeError"

\* C9: set and delete never fall back to the built-in symbols: for a key
\* that no local scope and no target on the chain knows they fail NameError
\* and change nothing, also when get finds the key among the built-ins.
C9_BuiltinsReadOnly ==
    /\ builtins = BuiltinTable
    /\ IsClosureOp({"set", "del"}) =>
          LET ch == Ancestors(pre.closures, OnClosure)
          IN  (\A i \in 1..Len(ch) : /\ ~HasLocal(pre.closures[ch[i]], last.key)
                                     /\ ~TargetKnows(pre.closures[ch[i]], last.key)) =>
                 (last.err = "NameError" /\ closures = pre.closures)

\* A refused delete of a built-in name that get resolves.
C9_Witness ==
    /\ IsClosureOp({"del"})
    /\ last.err = "NameError"
    /\ closures[OnClosure].parent # 0
    /\ closures[OnClosure].target_context.kind # "None"
    /\ ClosureGet(closures, builtins, OnClosure, last.key).val = BuiltinValue

\* The level of the ancestor list of the closure of the last write whose
\* target the write went to.
WrittenLevel ==
    LET ch == Ancestors(pre.closures, OnClosure)
    IN  Least({ i \in 1..Len(ch) : TargetKnows(pre.closures[ch[i]], last.key) })

\* closures[OnClosure][last.key], read right after the last operation.
ReadBack == Outcome(ClosureGet(closures, builtins, OnClosure, last.key))

\* What a read finds once the binding a delete removed is gone: the next
\* candidates in resolution order.
NextCandidate ==
    ResolveFrom(closures, builtins, Ancestors(closures, OnClosure), WrittenLevel + 1, last.key)

SetReadsBack == (IsClosureOp({"set"}) /\ last.err = "none") => ReadBack = Ok(last.value)

\* C10 as stated: after a successful set, get returns the value set; after a
\* successful delete, get resolves the key from the next candidate in
\* resolution order or fails NameError.
C10_RoundTrip_Original ==
    /\ SetReadsBack
    /\ (IsClosureOp({"del"}) /\ last.err = "none") => ReadBack = NextCandidate

\* C10, amended: after a successful set, get returns the value set; after a
\* successful delete, get returns the member of the same name that the class
\* of the target object defines, if it defines one, and otherwise resolves
\* the key from the next candidate in resolution order or fails NameError.
C10_RoundTrip ==
    /\ SetReadsBack
    /\ (IsClosureOp({"del"}) /\ last.err = "none") =>
          LET target == closures[Ancestors(closures, OnClosure)[WrittenLevel]].target_context.target
          IN  IF target.type = "object" /\ target.cls[last.key] # undefined
              THEN ReadBack = Ok(IF target.cls[last.key] = Function
                                 THEN BoundMethod(target.addr) ELSE target.cls[last.key])
              ELSE ReadBack = NextCandidate

\* A delete of an instance attribute that the class defines as well, through
\* a child closure.
C10_Witness ==
    /\ IsClosureOp({"del"})
    /\ last.err = "none"
    /\ OnClosure = 2
    /\ closures[Ancestors(closures, OnClosure)[WrittenLevel]].target_context.target.cls[last.key]
          # undefined
    /\ ReadBack = Ok(Data(0))

\* The target context a bind gives the new closure, as C8 states it: the
\* parent's factory applied to the first argument.
BoundTargetStated(parent, args) ==
    IF Len(args) = 0 THEN NoContext ELSE ApplyFactory(parent.context_factory, args[1])

\* The same, with no target context for a first argument that is None.
BoundTarget(parent, args) ==
    IF Len(args) = 0 \/ args[1] = NoneValue THEN NoContext
    ELSE ApplyFactory(parent.context_factory, args[1])

\* Everything C8 says of a bind but the target context.
BindShape ==
    LET c == Len(closures)
        u == last.unbound
    IN  /\ Len(closures) = Len(pre.closures) + 1
        /\ SubSeq(closures, 1, c - 1) = pre.closures
        /\ closures[c].parent = u.parent
        /\ closures[c].frame = u.frame
        /\ closures[c].context_factory = pre.closures[u.parent].context_factory
        /\ last.calls = << [func |-> u.func, cargs |-> <<c>> \o last.args] >>
        /\ last.val = CallFunc(u.func, <<c>> \o last.args)

\* C8 as stated: the target context of the new closure is the parent's
\* factory applied to the first argument, and absent only when there are no
\* positional arguments.
C8_Bind_Original ==
    last.op = "bind" =>
        /\ BindShape
        /\ closures[Len(closures)].target_context =
              BoundTargetStated(pre.closures[last.unbound.parent], last.args)

\* C8, amended: binding an UnboundClosure(parent P, locals L, callable f) to
\* a1..an appends a closure C with parent P, local scope L, P's factory, and
\* as target context P's factory applied to a1, or none when there are no
\* positional arguments or a1 is None; f is called once with (C, a1..an),
\* its result is returned, and every existing closure is unchanged.
C8_Bind ==
    last.op = "bind" =>
        /\ BindShape
        /\ closures[Len(closures)].target_context =
              BoundTarget(pre.closures[last.unbound.parent], last.args)

\* A bind of two arguments under a parent whose factory is not the default.
C8_Witness ==
    /\ last.op = "bind"
    /\ Len(last.args) = 2
    /\ closures[Len(closures)].target_context.kind = "MapContext"
    /\ closures[Len(closures)].frame.f_locals["a"] = Data(7)
    /\ last.val = Data(3)

----------------------------------------------------------------------------
\* Properties of stand-alone contexts and chains, checked under SpecChain.

\* The stand-alone context the last operation was called on.
OnContext == last.on[1].i

IsContextOp(ops, kind) ==
    /\ last.op \in ops
    /\ last.on[1].kind = "Context"
    /\ pre.contexts[OnContext].kind = kind

\* C3: on an object with a bound method m, set(m, v) and delete(m) of its
\* ObjectContext fail with RuntimeError and leave the member as it is, while
\* set on a plain data attribute succeeds and overwrites it.
C3_FrozenBinding ==
    /\ (IsContextOp({"ctx_set", "ctx_del"}, "ObjectContext")
          /\ GetAttr(pre.contexts[OnContext].target, last.key)
                = BoundMethod(pre.contexts[OnContext].target.addr)) =>
          (last.err = "RuntimeError" /\ contexts = pre.contexts)
    /\ (IsContextOp({"ctx_set"}, "ObjectContext")
          /\ GetAttr(pre.contexts[OnContext].target, last.key).tag = "data") =>
          (last.err = "none" /\ GetAttr(contexts[OnContext].target, last.key) = last.value)

KeysOf(target) == { k \in Keys : target.inst[k] # undefined }

\* The keys of ctx, a MapContext, are among those its mapping started with.
NoNewKey(ctx) ==
    ctx.kind = "MapContext" =>
        \E m \in DictValues(ctx.target.addr) : KeysOf(ctx.target) \subseteq KeysOf(m)

\* What set(last.key, last.value) does to a mapping: nothing but NameError
\* when the key is absent, and an update of that key alone when it is present.
MapSetOutcome(before, after) ==
    IF before.inst[last.key] = undefined
    THEN last.err = "NameError" /\ after = before
    ELSE last.err = "none" /\ after = [before EXCEPT !.inst[last.key] = last.value]

\* C4: a MapContext never creates a key, whether used directly or as the
\* target of a Closure.from_map: set of an absent key fails NameError and
\* changes nothing, set of a present key updates that key alone.
C4_MapNoCreate ==
    /\ \A i \in 1..Len(contexts) : NoNewKey(contexts[i])
    /\ \A c \in 1..Len(closures) : NoNewKey(closures[c].target_context)
    /\ IsContextOp({"ctx_set"}, "MapContext") =>
          /\ MapSetOutcome(pre.contexts[OnContext].target, contexts[OnContext].target)
          /\ \A i \in 1..Len(contexts) : i # OnContext => contexts[i] = pre.contexts[i]
    /\ IsClosureOp({"set"}) =>
          /\ MapSetOutcome(pre.closures[OnClosure].target_context.target,
                           closures[OnClosure].target_context.target)
          /\ \A c \in 1..Len(closures) : c # OnClosure => closures[c] = pre.closures[c]

\* A set, through a from_map closure, of a key that was deleted before.
C4_Witness ==
    /\ IsClosureOp({"set"})
    /\ last.key = "a"
    /\ KeysOf(pre.closures[OnClosure].target_context.target) = {}
    /\ last.err = "NameError"

\* What the i-th sub-context of the last chain answers to the last
\* operation when it is asked alone.
SubContext(i) == pre.contexts[last.on[i].i]

\* C5: a chain answers get, set and delete with the answer of its first
\* sub-context that knows the key, asks no sub-context after it and changes
\* no other sub-context; when no sub-context knows the key the operation
\* fails NameError and changes nothing.
C5_ChainPrecedence ==
    last.op \in {"chain_get", "chain_set", "chain_del"} =>
        LET knows == { i \in 1..Len(last.on) : CtxGet(SubContext(i), last.key).err = "none" }
        IN  IF knows = {}
            THEN last.err = "NameError" /\ contexts = pre.contexts /\ last.tried = Len(last.on)
            ELSE LET i == Least(knows)
                 IN  /\ last.tried = i
                     /\ IF last.op = "chain_get"
                        THEN /\ Outcome(last) = CtxGet(SubContext(i), last.key)
                             /\ contexts = pre.contexts
                        ELSE /\ last.err = Written(SubContext(i)).err
                             /\ contexts = [pre.contexts EXCEPT ![last.on[i].i].target =
                                               Written(SubContext(i)).target]

\* A set through a chain whose two sub-contexts both know the key.
C5_Witness ==
    /\ last.op = "chain_set"
    /\ Len(last.on) = 2
    /\ CtxGet(SubContext(1), last.key).err = "none"
    /\ CtxGet(SubContext(2), last.key).err = "none"
    /\ last.err = "none"
    /\ contexts[2] = pre.contexts[2]
    /\ contexts[1] # pre.contexts[1]

====
